---- MODULE Spec2Model ----
(***************************************************************************)
(* Address form server: the zod validation schema (insertAddressSchema),    *)
(* the in-memory record store (MemStorage) and the Express routes           *)
(* (registerRoutes) of src/shared/schema.ts, as a state machine.            *)
(*                                                                          *)
(* JavaScript values are tagged records: [t |-> "undefined"],               *)
(* [t |-> "null"], [t |-> "string", s |-> <<chars>>],                       *)
(* [t |-> "number", n |-> k], [t |-> "array"], [t |-> "object", f |-> rec]. *)
(* A string is the sequence of its characters, so that length checks and   *)
(* the ZIP regular expression are computed on the characters.              *)
(***************************************************************************)
EXTENDS Integers, Sequences, FiniteSets, Bags, TLC

\* ---------------------------------------------------------------- bounds
\* At most MaxAddresses createAddress calls and MaxUsers createUser calls
\* are explored; at most MaxInFlight requests are suspended at one time.
MaxAddresses == 2
MaxUsers == 2
MaxInFlight == 2

\* ------------------------------------------------------------- JS values
Undefined == [t |-> "undefined"]
Null == [t |-> "null"]
Str(s) == [t |-> "string", s |-> s]
Num(n) == [t |-> "number", n |-> n]
JsArray == [t |-> "array"]
Obj(f) == [t |-> "object", f |-> f]

\* typeof-like classification used by zod (getParsedType)
getParsedType(v) == v.t

Digits == {"0", "1", "2", "3", "4", "5", "6", "7", "8", "9"}

\* /^\d{5}(-\d{4})?$/.test(s): five digits, then optionally a dash and four
\* digits, then the end of the input.
DigitsAt(s, from, n) ==
    /\ from + n - 1 <= Len(s)
    /\ \A i \in from..(from + n - 1) : s[i] \in Digits

\* Variant: the pattern without its end anchor.
ZipRegexTest_unanchored(s) ==
    /\ DigitsAt(s, 1, 5)

ZipRegexTest(s) ==
    /\ DigitsAt(s, 1, 5)
    /\ \/ Len(s) = 5
       \/ /\ Len(s) >= 6
          /\ s[6] = "-"
          /\ DigitsAt(s, 7, 4)
          /\ Len(s) = 10

\* --------------------------------------------------- insertAddressSchema
Issue(path, code, message) == [path |-> path, code |-> code, message |-> message]

\* Variant: z.string() without the min(1) check.
ZodStringMin1_noMin(key, v, message) ==
    IF getParsedType(v) # "string"
    THEN << Issue(<<key>>, "invalid_type",
                  IF getParsedType(v) = "undefined" THEN "Required" ELSE "Expected string") >>
    ELSE << >>

\* z.string().min(1, message): a non-string aborts with invalid_type
\* ("Required" for undefined); otherwise the length check runs.
ZodStringMin1(key, v, message) ==
    IF getParsedType(v) # "string"
    THEN << Issue(<<key>>, "invalid_type",
                  IF getParsedType(v) = "undefined" THEN "Required" ELSE "Expected string") >>
    ELSE IF Len(v.s) < 1
         THEN << Issue(<<key>>, "too_small", message) >>
         ELSE << >>

\* Variant: z.string().min(1, ..) without the regex check.
ZodZipCode_minOnly(v) ==
    IF getParsedType(v) # "string"
    THEN << Issue(<<"zipCode">>, "invalid_type",
                  IF getParsedType(v) = "undefined" THEN "Required" ELSE "Expected string") >>
    ELSE IF Len(v.s) < 1
         THEN << Issue(<<"zipCode">>, "too_small", "ZIP code is required") >>
         ELSE << >>

\* z.string().min(1, ..).regex(re, ..): every check of the string runs, the
\* issues of all failing checks are added.
ZodZipCode(v) ==
    IF getParsedType(v) # "string"
    THEN << Issue(<<"zipCode">>, "invalid_type",
                  IF getParsedType(v) = "undefined" THEN "Required" ELSE "Expected string") >>
    ELSE (IF Len(v.s) < 1
          THEN << Issue(<<"zipCode">>, "too_small", "ZIP code is required") >>
          ELSE << >>)
         \o
         (IF ~ZipRegexTest(v.s)
          THEN << Issue(<<"zipCode">>, "invalid_string", "Please enter a valid ZIP code") >>
          ELSE << >>)

\* z.string().optional(): undefined passes, anything else must be a string.
ZodApartment(v) ==
    IF getParsedType(v) = "undefined" THEN << >>
    ELSE IF getParsedType(v) # "string"
         THEN << Issue(<<"apartment">>, "invalid_type", "Expected string") >>
         ELSE << >>

AddressTypeValues == { <<"h", "o", "m", "e">>, <<"w", "o", "r", "k">>, <<"o", "t", "h", "e", "r">> }

\* Variant: z.enum([...]) without .default("home").
AddressTypeDefault_none(v) == v

\* z.enum([...]).default("home"): undefined is replaced by the default
\* before the enum is checked.
AddressTypeDefault(v) ==
    IF getParsedType(v) = "undefined" THEN Str(<<"h", "o", "m", "e">>) ELSE v

ZodAddressType(v) ==
    LET d == AddressTypeDefault(v) IN
    IF getParsedType(d) # "string"
    THEN << Issue(<<"addressType">>, "invalid_type", "Expected enum") >>
    ELSE IF d.s \notin AddressTypeValues
         THEN << Issue(<<"addressType">>, "invalid_enum_value", "Invalid enum value") >>
         ELSE << >>

\* Variant: parsing stops at the first field that has issues.
ObjectIssues_firstOnly(f) ==
    LET all == << ZodStringMin1("streetAddress", f.streetAddress, "Street address is required"),
                  ZodStringMin1("city", f.city, "City is required"),
                  ZodStringMin1("state", f.state, "State is required"),
                  ZodZipCode(f.zipCode),
                  ZodStringMin1("country", f.country, "Country is required"),
                  ZodApartment(f.apartment),
                  ZodAddressType(f.addressType) >>
        failing == {i \in 1..Len(all) : all[i] # << >>}
    IN IF failing = {} THEN << >>
       ELSE all[CHOOSE i \in failing : \A j \in failing : i <= j]

\* The issues of the object schema, in the order of its shape.
ObjectIssues(f) ==
    ZodStringMin1("streetAddress", f.streetAddress, "Street address is required")
    \o ZodStringMin1("city", f.city, "City is required")
    \o ZodStringMin1("state", f.state, "State is required")
    \o ZodZipCode(f.zipCode)
    \o ZodStringMin1("country", f.country, "Country is required")
    \o ZodApartment(f.apartment)
    \o ZodAddressType(f.addressType)

\* The parsed output: the keys of the shape only (id and userId are omitted
\* from the schema and unknown keys are stripped), addressType defaulted.
ObjectData(f) ==
    [streetAddress |-> f.streetAddress,
     city          |-> f.city,
     state         |-> f.state,
     zipCode       |-> f.zipCode,
     country       |-> f.country,
     apartment     |-> f.apartment,
     addressType   |-> AddressTypeDefault(f.addressType)]

\* insertAddressSchema.parse(body): success with the data, or the ZodError's
\* issues. A body that is not an object yields one issue at the root path.
insertAddressSchema_parse(body) ==
    IF getParsedType(body) # "object"
    THEN [success |-> FALSE, issues |-> << Issue(<< >>, "invalid_type", "Expected object") >>]
    ELSE LET issues == ObjectIssues(body.f) IN
         IF issues = << >>
         THEN [success |-> TRUE, data |-> ObjectData(body.f)]
         ELSE [success |-> FALSE, issues |-> issues]

\* ------------------------------------------------------------ JS Map
\* A Map is the sequence of its entries in insertion order.
MapHas(m, k) == \E i \in 1..Len(m) : m[i].key = k

MapGet(m, k) ==
    IF MapHas(m, k)
    THEN m[CHOOSE i \in 1..Len(m) : m[i].key = k].value
    ELSE Undefined

\* Variant: the map keeps the entry set last and drops the others.
MapSet_keepsLatestOnly(m, k, v) == << [key |-> k, value |-> v] >>

MapSet(m, k, v) ==
    IF MapHas(m, k)
    THEN [i \in 1..Len(m) |-> IF m[i].key = k THEN [key |-> k, value |-> v] ELSE m[i]]
    ELSE Append(m, [key |-> k, value |-> v])

MapValues(m) == [i \in 1..Len(m) |-> m[i].value]

\* ------------------------------------------------------------- state
VARIABLES
    users,             \* MemStorage.users: Map<number, User>
    addresses,         \* MemStorage.addresses: Map<number, Address>
    currentUserId,     \* MemStorage.currentUserId
    currentAddressId,  \* MemStorage.currentAddressId
    GOOGLE_API_KEY,    \* the key read from the environment at registerRoutes
    inflight,          \* the handlers suspended at an await
    resp,              \* the response written last (with its request)
    createLog,         \* the createAddress calls made so far: argument and result
    client             \* the AddressForm component in the browser

storeVars == <<users, addresses, currentUserId, currentAddressId>>
vars == <<users, addresses, currentUserId, currentAddressId, GOOGLE_API_KEY,
          inflight, resp, createLog, client>>

\* inflight is the bag of the suspended handlers: each is a record of the
\* handler's position (pc) and of the locals it holds across the await.
CanSuspend == BagCardinality(inflight) < MaxInFlight
Suspend(h) == inflight (+) SetToBag({h})
Resume(h) == inflight (-) SetToBag({h})
Suspended == BagToSet(inflight)
NoResponse == [route |-> "none"]
PostRoute == "POST /api/addresses"
GetAddressesRoute == "GET /api/addresses"

\* ------------------------------------------------------- MemStorage reads
getUser(id) == MapGet(users, id)

\* Array.from(this.users.values()).find(user => user.username === username)
getUserByUsername(username) ==
    LET vs == MapValues(users)
        hits == {i \in 1..Len(vs) : vs[i].username = username}
    IN IF hits = {} THEN Undefined
       ELSE vs[CHOOSE i \in hits : \A j \in hits : i <= j]

getAddresses == MapValues(addresses)

getAddressById(id) == MapGet(addresses, id)

\* ------------------------------------------------------ MemStorage writes
\* { ...insertUser, id }
NewUser(insertUser, id) ==
    [k \in (DOMAIN insertUser) \cup {"id"} |->
        IF k = "id" THEN Num(id) ELSE insertUser[k]]

\* Variant: the record is built from a fixed list of columns that leaves
\* out apartment.
NewAddress_withoutApartment(insertAddress, id) ==
    [k \in ((DOMAIN insertAddress) \ {"apartment"}) \cup {"id", "userId"} |->
        IF k = "id" THEN Num(id)
        ELSE IF k = "userId" THEN Null
        ELSE insertAddress[k]]

\* { ...insertAddress, id, userId: null }
NewAddress(insertAddress, id) ==
    [k \in (DOMAIN insertAddress) \cup {"id", "userId"} |->
        IF k = "id" THEN Num(id)
        ELSE IF k = "userId" THEN Null
        ELSE insertAddress[k]]

\* Variant: the counter is read but not incremented.
NextAddressId_notIncremented == currentAddressId

\* const id = this.currentAddressId++
NextAddressId == currentAddressId + 1

createUser(insertUser) ==
    /\ currentUserId' = currentUserId + 1
    /\ users' = MapSet(users, currentUserId, NewUser(insertUser, currentUserId))
    /\ UNCHANGED <<addresses, currentAddressId, createLog>>

\* Variant: the counter is left as it was.
createAddress_withoutIncrement(insertAddress) ==
    /\ addresses' = MapSet(addresses, currentAddressId,
                           NewAddress(insertAddress, currentAddressId))
    /\ createLog' = Append(createLog,
                           [arg |-> insertAddress,
                            ret |-> NewAddress(insertAddress, currentAddressId)])
    /\ UNCHANGED <<users, currentUserId, currentAddressId>>

\* Variant: the record is set into the users map.
createAddress_intoUsers(insertAddress) ==
    /\ currentAddressId' = NextAddressId
    /\ users' = MapSet(users, currentAddressId,
                       NewAddress(insertAddress, currentAddressId))
    /\ createLog' = Append(createLog,
                           [arg |-> insertAddress,
                            ret |-> NewAddress(insertAddress, currentAddressId)])
    /\ UNCHANGED <<addresses, currentUserId>>

createAddress(insertAddress) ==
    /\ currentAddressId' = NextAddressId
    /\ addresses' = MapSet(addresses, currentAddressId,
                           NewAddress(insertAddress, currentAddressId))
    /\ createLog' = Append(createLog,
                           [arg |-> insertAddress,
                            ret |-> NewAddress(insertAddress, currentAddressId)])
    /\ UNCHANGED <<users, currentUserId>>

\* ------------------------------------------------------------- inputs
S_street == <<"1", " ", "M">>
S_city == <<"X">>
S_state == <<"I", "L">>
S_zip == <<"6", "2", "7", "0", "4">>
S_zip9 == <<"6", "2", "7", "0", "4", "-", "1", "2", "3", "4">>
S_US == <<"U", "S">>
S_apt == <<"4", "B">>
S_home == <<"h", "o", "m", "e">>
S_work == <<"w", "o", "r", "k">>
S_office == <<"o", "f", "f", "i", "c", "e">>
S_bad == <<"b", "a", "d">>
S_space == <<" ">>
S_empty == << >>

Fields(street, city, state, zip, country, apartment, addressType, id, userId) ==
    [streetAddress |-> street, city |-> city, state |-> state, zipCode |-> zip,
     country |-> country, apartment |-> apartment, addressType |-> addressType,
     id |-> id, userId |-> userId]

\* The request bodies of the system specification: a complete submission, a
\* minimal one that also carries id and userId, and one body per way of
\* failing a rule.
Bodies ==
    { Obj(Fields(Str(S_street), Str(S_city), Str(S_state), Str(S_zip), Str(S_US),
                 Undefined, Str(S_work), Undefined, Undefined)),
      Obj(Fields(Str(S_street), Str(S_city), Str(S_state), Str(S_zip9), Str(S_US),
                 Str(S_apt), Undefined, Num(7), Num(3))),
      Obj(Fields(Str(S_empty), Str(S_city), Str(S_state), Str(S_bad), Str(S_US),
                 Undefined, Undefined, Undefined, Undefined)),
      Obj(Fields(Str(S_street), Str(S_city), Str(S_state), Str(S_zip), Undefined,
                 Undefined, Str(S_home), Undefined, Undefined)),
      Obj(Fields(Str(S_space), Str(S_city), Str(S_state), Str(S_zip), Str(S_US),
                 Undefined, Str(S_home), Undefined, Undefined)),
      Obj(Fields(Str(S_street), Str(S_city), Str(S_state), Str(S_zip), Str(S_US),
                 Undefined, Str(S_office), Undefined, Undefined)),
      JsArray }

\* Arguments of direct createAddress calls: values of type InsertAddress.
InsertAddresses ==
    { [streetAddress |-> Str(S_street), city |-> Str(S_city), state |-> Str(S_state),
       zipCode |-> Str(S_zip9), country |-> Str(S_US), apartment |-> a,
       addressType |-> Str(S_home)] : a \in {Str(S_apt)} }

\* Arguments of createUser calls: values of type InsertUser.
InsertUsers ==
    { [username |-> Str(u), password |-> Str(<<"p">>)] : u \in { <<"a">>, <<"b">> } }

\* ------------------------------------------------------------ AddressForm
\* The component's state after its first render: the search query and the
\* dropdown flag (useState), the timer held by searchTimeoutRef, and the
\* suggestion queries the query client has started, with the keys it holds
\* fresh data for. quiet and burst observe the typing: whether the debounce
\* interval of 300 ms has passed since the text changed last, and how many
\* queries were started since it last passed.
FormMounted ==
    [searchQuery |-> << >>, showSuggestions |-> FALSE, timer |-> "none",
     queries |-> << >>, fresh |-> {}, quiet |-> TRUE, burst |-> 0]

\* useQuery({ queryKey: [.., searchQuery], enabled: searchQuery.length >= 3,
\* staleTime: 30000 }) on the render that follows a change of searchQuery:
\* an enabled query whose key has no fresh data is started at once.
StartsQuery(c, searchQuery) ==
    Len(searchQuery) >= 3 /\ searchQuery \notin c.fresh

UseQuery(c, searchQuery) ==
    IF StartsQuery(c, searchQuery)
    THEN [c EXCEPT !.searchQuery = searchQuery,
                   !.queries = Append(@, [key |-> searchQuery, quiet |-> c.quiet]),
                   !.fresh = @ \cup {searchQuery},
                   !.burst = @ + 1]
    ELSE [c EXCEPT !.searchQuery = searchQuery]

\* handleStreetAddressChange(value): the query key changes at once; the
\* timer is cleared and, for a value of 3 characters or more, set again to
\* open the dropdown 300 ms later.
HandleStreetAddressChange(value) ==
    /\ value # client.searchQuery
    /\ client' = UseQuery(
                     [client EXCEPT
                        !.timer = IF Len(value) >= 3 THEN "pending" ELSE "none",
                        !.showSuggestions = IF Len(value) >= 3 THEN @ ELSE FALSE,
                        !.quiet = FALSE],
                     value)
    /\ UNCHANGED <<users, addresses, currentUserId, currentAddressId,
                   GOOGLE_API_KEY, inflight, resp, createLog>>

\* 300 ms pass without a change of the text: a pending timer fires, and its
\* callback opens the dropdown.
DebounceElapsed ==
    /\ ~client.quiet \/ client.timer = "pending"
    /\ client' = [client EXCEPT
                     !.showSuggestions = IF client.timer = "pending" THEN TRUE ELSE @,
                     !.timer = "none",
                     !.quiet = TRUE,
                     !.burst = 0]
    /\ UNCHANGED <<users, addresses, currentUserId, currentAddressId,
                   GOOGLE_API_KEY, inflight, resp, createLog>>

\* handleClear(): the query and the dropdown flag are reset, the timer is
\* left as it is.
HandleClear ==
    /\ client.searchQuery # << >> \/ client.showSuggestions
    /\ client' = UseQuery([client EXCEPT !.showSuggestions = FALSE,
                                         !.quiet = client.searchQuery = << >> /\ @],
                          << >>)
    /\ UNCHANGED <<users, addresses, currentUserId, currentAddressId,
                   GOOGLE_API_KEY, inflight, resp, createLog>>

\* The texts of the street address field.
Typed ==
    { << >>, <<"1">>, <<"1", " ">>, <<"1", " ", "M">>, <<"1", " ", "M", "a">>,
      <<"1", " ", "M", "a", "i">> }

\* ------------------------------------------------------------ MemStorage
Init ==
    /\ users = << >>
    /\ addresses = << >>
    /\ currentUserId = 1
    /\ currentAddressId = 1
    /\ GOOGLE_API_KEY \in { << >>, <<"k">> }
    /\ inflight = EmptyBag
    /\ resp = NoResponse
    /\ createLog = << >>
    /\ client = FormMounted

\* storage.createUser(insertUser), called directly
CreateUser(insertUser) ==
    /\ currentUserId <= MaxUsers
    /\ createUser(insertUser)
    /\ UNCHANGED <<GOOGLE_API_KEY, client, inflight, resp>>

\* storage.createAddress(insertAddress), called directly
CreateAddress(insertAddress) ==
    /\ currentAddressId <= MaxAddresses
    /\ createAddress(insertAddress)
    /\ UNCHANGED <<GOOGLE_API_KEY, client, inflight, resp>>

\* Variant of the POST handler: the id is taken from the counter before the
\* body is validated.
PostAddress_allocatesFirst(body) ==
    /\ LET parsed == insertAddressSchema_parse(body) IN
       IF parsed.success
       THEN /\ currentAddressId <= MaxAddresses
            /\ CanSuspend
            /\ createAddress(parsed.data)
            /\ inflight' = Suspend(
                   [pc |-> "awaitCreateAddress", route |-> PostRoute,
                    req |-> body,
                    address |-> NewAddress(parsed.data, currentAddressId)])
            /\ UNCHANGED <<GOOGLE_API_KEY, client, resp>>
       ELSE /\ currentAddressId <= MaxAddresses
            /\ currentAddressId' = currentAddressId + 1
            /\ resp' = [route |-> PostRoute, req |-> body, status |-> 400,
                        json |-> [error |-> "Validation error",
                                  details |-> parsed.issues]]
            /\ UNCHANGED <<users, addresses, currentUserId,
                           GOOGLE_API_KEY, client, inflight, createLog>>

\* ---------------------------------------------------- POST /api/addresses
\* The handler up to its await: parse the body; a ZodError is answered with
\* 400 at once, otherwise storage.createAddress runs (MemStorage's methods
\* hold no await, so the call completes before the handler suspends).
PostAddress(body) ==
    /\ LET parsed == insertAddressSchema_parse(body) IN
       IF parsed.success
       THEN /\ currentAddressId <= MaxAddresses
            /\ CanSuspend
            /\ createAddress(parsed.data)
            /\ inflight' = Suspend(
                   [pc |-> "awaitCreateAddress", route |-> PostRoute,
                    req |-> body,
                    address |-> NewAddress(parsed.data, currentAddressId)])
            /\ UNCHANGED <<GOOGLE_API_KEY, client, resp>>
       ELSE /\ resp' = [route |-> PostRoute, req |-> body, status |-> 400,
                        json |-> [error |-> "Validation error",
                                  details |-> parsed.issues]]
            /\ UNCHANGED <<users, addresses, currentUserId, currentAddressId,
                           GOOGLE_API_KEY, client, inflight, createLog>>

\* res.status(201).json(address), once the awaited promise has resolved
PostAddressRespond(h) ==
    /\ h.pc = "awaitCreateAddress"
    /\ resp' = [route |-> PostRoute, req |-> h.req,
                status |-> 201, json |-> h.address]
    /\ inflight' = Resume(h)
    /\ UNCHANGED <<users, addresses, currentUserId, currentAddressId,
                   GOOGLE_API_KEY, client, createLog>>

\* ----------------------------------------------------- GET /api/addresses
\* storage.getAddresses() builds the array when called; the handler then
\* suspends and answers with that array.
GetAddresses ==
    /\ CanSuspend
    /\ inflight' = Suspend(
           [pc |-> "awaitGetAddresses", route |-> GetAddressesRoute,
            list |-> getAddresses])
    /\ UNCHANGED <<users, addresses, currentUserId, currentAddressId,
                   GOOGLE_API_KEY, client, resp, createLog>>

GetAddressesRespond(h) ==
    /\ h.pc = "awaitGetAddresses"
    /\ resp' = [route |-> GetAddressesRoute, status |-> 200, json |-> h.list]
    /\ inflight' = Resume(h)
    /\ UNCHANGED <<users, addresses, currentUserId, currentAddressId,
                   GOOGLE_API_KEY, client, createLog>>

\* ---------------------------------------------- GET /api/places/suggestions
\* JavaScript truthiness and the || operator on the values used here.
Truthy(v) ==
    CASE getParsedType(v) = "undefined" -> FALSE
      [] getParsedType(v) = "null" -> FALSE
      [] getParsedType(v) = "string" -> Len(v.s) > 0
      [] getParsedType(v) = "number" -> v.n # 0
      [] OTHER -> TRUE

JsOr(a, b) == IF Truthy(a) THEN a ELSE b

\* o?.key
OptChain(o, key) ==
    IF getParsedType(o) \in {"undefined", "null"} THEN Undefined ELSE o.f[key]

\* encodeURIComponent on the characters used here: a space is escaped,
\* letters and digits are kept.
RECURSIVE encodeURIComponent(_)
encodeURIComponent(s) ==
    IF s = << >> THEN << >>
    ELSE (IF Head(s) = " " THEN <<"%", "2", "0">> ELSE <<Head(s)>>)
         \o encodeURIComponent(Tail(s))

\* Variant: the threshold is 2 characters.
InputTooShort_lt2(input) ==
    \/ ~Truthy(input)
    \/ getParsedType(input) # "string"
    \/ Len(input.s) < 2

\* !input || typeof input !== "string" || input.length < 3
InputTooShort(input) ==
    \/ ~Truthy(input)
    \/ getParsedType(input) # "string"
    \/ Len(input.s) < 3

\* prediction => ({ placeId, description, mainText, secondaryText })
MapPrediction_withoutFallback(prediction) ==
    [placeId       |-> prediction.place_id,
     description   |-> prediction.description,
     mainText      |-> OptChain(prediction.structured_formatting, "main_text"),
     secondaryText |-> OptChain(prediction.structured_formatting, "secondary_text")]

MapPrediction(prediction) ==
    [placeId       |-> prediction.place_id,
     description   |-> prediction.description,
     mainText      |-> JsOr(OptChain(prediction.structured_formatting, "main_text"),
                            prediction.description),
     secondaryText |-> JsOr(OptChain(prediction.structured_formatting, "secondary_text"),
                            Str(<< >>))]

\* data.predictions?.map(...) || []
MapPredictions(predictions) ==
    IF getParsedType(predictions) \in {"undefined", "null"} THEN << >>
    ELSE [i \in 1..Len(predictions.items) |-> MapPrediction(predictions.items[i])]

SuggestionsRoute == "GET /api/places/suggestions"

\* A places response also records what its handler saw of the external
\* service: the number of fetch calls it made, how the fetch settled and the
\* provider status it read ("none" when it did not get that far).
Upstream(fetch, status) == [fetch |-> fetch, status |-> status]

SuggestionsError(input, fetches, upstream) ==
    [route |-> SuggestionsRoute, req |-> input, status |-> 500,
     json |-> [error |-> "Failed to fetch address suggestions",
               message |-> "Address autocomplete service is temporarily unavailable"],
     fetches |-> fetches, upstream |-> upstream]

\* The handler up to its first await: the length check, the key check, then
\* the call to the external service.
Suggestions(input) ==
    /\ IF InputTooShort(input)
       THEN /\ resp' = [route |-> SuggestionsRoute, req |-> input, status |-> 200,
                        json |-> [predictions |-> << >>], fetches |-> 0,
                        upstream |-> Upstream("none", "none")]
            /\ UNCHANGED inflight
       ELSE IF Len(GOOGLE_API_KEY) = 0
       THEN /\ resp' = [route |-> SuggestionsRoute, req |-> input, status |-> 503,
                        json |-> [error |-> "Google Places API key not configured",
                                  message |-> "Address autocomplete is temporarily unavailable"],
                        fetches |-> 0, upstream |-> Upstream("none", "none")]
            /\ UNCHANGED inflight
       ELSE /\ CanSuspend
            /\ inflight' = Suspend(
                   [pc |-> "awaitFetch", route |-> SuggestionsRoute, req |-> input,
                    url |-> [path |-> "autocomplete",
                             input |-> encodeURIComponent(input.s),
                             types |-> "address",
                             key |-> GOOGLE_API_KEY],
                    fetches |-> 1])
            /\ UNCHANGED resp
    /\ UNCHANGED <<users, addresses, currentUserId, currentAddressId,
                   GOOGLE_API_KEY, client, createLog>>

\* The fetch settles: rejected (network error), or a response that is ok or
\* not. Anything but an ok response is thrown and answered with 500.
FetchOutcomes == {"rejected", "not ok", "ok"}

SuggestionsFetched(h, outcome) ==
    /\ h.pc = "awaitFetch"
    /\ h.route = SuggestionsRoute
    /\ IF outcome = "ok"
       THEN /\ inflight' = Resume(h) (+) SetToBag({[h EXCEPT !.pc = "awaitJson"]})
            /\ UNCHANGED resp
       ELSE /\ resp' = SuggestionsError(h.req, h.fetches, Upstream(outcome, "none"))
            /\ inflight' = Resume(h)
    /\ UNCHANGED <<users, addresses, currentUserId, currentAddressId,
                   GOOGLE_API_KEY, client, createLog>>

\* Provider payloads of the autocomplete service.
Prediction(placeId, description, structured) ==
    [place_id |-> Str(placeId), description |-> Str(description),
     structured_formatting |-> structured]

P_structured ==
    Prediction(<<"p", "1">>, <<"1", " ", "M", ",", "X">>,
               Obj([main_text |-> Str(<<"1", " ", "M">>), secondary_text |-> Str(<<"X">>)]))
P_plain == Prediction(<<"p", "2">>, <<"2", " ", "M">>, Undefined)
P_blank ==
    Prediction(<<"p", "3">>, <<"3", " ", "M">>,
               Obj([main_text |-> Str(<< >>), secondary_text |-> Undefined]))
P_emptyMain ==
    Prediction(<<"p", "4">>, <<"4", " ", "M">>,
               Obj([main_text |-> Str(<< >>), secondary_text |-> Str(<<"Y">>)]))

List(items) == [t |-> "array", items |-> items]

AutocompleteData ==
    { [status |-> "OK", predictions |-> List(<<P_structured, P_plain>>)],
      [status |-> "OK", predictions |-> List(<<P_blank, P_emptyMain>>)],
      [status |-> "ZERO_RESULTS", predictions |-> List(<< >>)],
      [status |-> "ZERO_RESULTS", predictions |-> Undefined],
      [status |-> "REQUEST_DENIED", predictions |-> List(<< >>)] }

Rejected == [status |-> "rejected"]

\* response.json() settles: rejected (the body is not JSON) or the payload.
\* A status other than OK and ZERO_RESULTS is thrown and answered with 500.
SuggestionsParsed(h, data) ==
    /\ h.pc = "awaitJson"
    /\ h.route = SuggestionsRoute
    /\ IF data = Rejected \/ data.status \notin {"OK", "ZERO_RESULTS"}
       THEN resp' = SuggestionsError(h.req, h.fetches, Upstream("ok", data.status))
       ELSE resp' = [route |-> SuggestionsRoute, req |-> h.req,
                     status |-> 200,
                     json |-> [predictions |-> MapPredictions(data.predictions)],
                     provider |-> data.predictions,
                     fetches |-> h.fetches, upstream |-> Upstream("ok", data.status)]
    /\ inflight' = Resume(h)
    /\ UNCHANGED <<users, addresses, currentUserId, currentAddressId,
                   GOOGLE_API_KEY, client, createLog>>

\* req.query.input: absent, a string, or an array (a repeated parameter).
QueryInputs ==
    { Undefined, Str(<< >>), Str(<<"1", " ">>), Str(<<"1", " ", "M">>),
      Str(<<"1", " ", "M", "a">>), JsArray }

\* ------------------------------------------ GET /api/places/details/:placeId
DetailsRoute == "GET /api/places/details/:placeId"

DetailsError(placeId, fetches, upstream) ==
    [route |-> DetailsRoute, req |-> placeId, status |-> 500,
     json |-> [error |-> "Failed to fetch address details",
               message |-> "Address details service is temporarily unavailable"],
     fetches |-> fetches, upstream |-> upstream]

Details_withoutKeyCheck(placeId) ==
    /\ CanSuspend
    /\ inflight' = Suspend(
           [pc |-> "awaitFetch", route |-> DetailsRoute, req |-> placeId,
            url |-> [path |-> "details", place_id |-> placeId.s,
                     fields |-> "address_components", key |-> GOOGLE_API_KEY],
            fetches |-> 1])
    /\ UNCHANGED <<users, addresses, currentUserId, currentAddressId,
                   GOOGLE_API_KEY, client, createLog, resp>>

\* The handler up to its first await: the key check, then the call to the
\* external service (the place id goes into the URL as it is).
Details(placeId) ==
    /\ IF Len(GOOGLE_API_KEY) = 0
       THEN /\ resp' = [route |-> DetailsRoute, req |-> placeId, status |-> 503,
                        json |-> [error |-> "Google Places API key not configured",
                                  message |-> "Address details service is temporarily unavailable"],
                        fetches |-> 0, upstream |-> Upstream("none", "none")]
            /\ UNCHANGED inflight
       ELSE /\ CanSuspend
            /\ inflight' = Suspend(
                   [pc |-> "awaitFetch", route |-> DetailsRoute, req |-> placeId,
                    url |-> [path |-> "details",
                             place_id |-> placeId.s,
                             fields |-> "address_components",
                             key |-> GOOGLE_API_KEY],
                    fetches |-> 1])
            /\ UNCHANGED resp
    /\ UNCHANGED <<users, addresses, currentUserId, currentAddressId,
                   GOOGLE_API_KEY, client, createLog>>

DetailsFetched(h, outcome) ==
    /\ h.pc = "awaitFetch"
    /\ h.route = DetailsRoute
    /\ IF outcome = "ok"
       THEN /\ inflight' = Resume(h) (+) SetToBag({[h EXCEPT !.pc = "awaitJson"]})
            /\ UNCHANGED resp
       ELSE /\ resp' = DetailsError(h.req, h.fetches, Upstream(outcome, "none"))
            /\ inflight' = Resume(h)
    /\ UNCHANGED <<users, addresses, currentUserId, currentAddressId,
                   GOOGLE_API_KEY, client, createLog>>

\* types.includes(tag)
Includes(types, tag) == \E i \in 1..Len(types) : types[i] = tag

NoDetails ==
    [streetNumber |-> Undefined, route |-> Undefined, locality |-> Undefined,
     administrativeAreaLevel1 |-> Undefined, postalCode |-> Undefined,
     country |-> Undefined]

\* The body of the forEach callback: the first branch of the else-if chain
\* whose tag the component carries assigns its field.
ApplyComponent(details, component) ==
    LET types == component.types IN
    IF Includes(types, "street_number")
    THEN [details EXCEPT !.streetNumber = component.long_name]
    ELSE IF Includes(types, "route")
    THEN [details EXCEPT !.route = component.long_name]
    ELSE IF Includes(types, "locality")
    THEN [details EXCEPT !.locality = component.long_name]
    ELSE IF Includes(types, "administrative_area_level_1")
    THEN [details EXCEPT !.administrativeAreaLevel1 = component.short_name]
    ELSE IF Includes(types, "postal_code")
    THEN [details EXCEPT !.postalCode = component.long_name]
    ELSE IF Includes(types, "country")
    THEN [details EXCEPT !.country = component.short_name]
    ELSE details

ForEachComponent_firstOnly(details, components) ==
    IF components = << >> THEN details
    ELSE ApplyComponent(details, Head(components))

\* addressComponents.forEach(...), starting from details = {}
RECURSIVE ForEachComponent(_, _)
ForEachComponent(details, components) ==
    IF components = << >> THEN details
    ELSE ForEachComponent(ApplyComponent(details, Head(components)), Tail(components))

\* data.result?.address_components || []
AddressComponents(data) ==
    LET c == OptChain(data.result, "address_components") IN
    IF Truthy(c) THEN c.items ELSE << >>

DetailsStatusFails_likeSuggestions(status) ==
    status # "OK" /\ status # "ZERO_RESULTS"

\* data.status !== "OK"
DetailsStatusFails(status) == status # "OK"

\* response.json() settles: rejected or the payload. A status other than OK
\* is thrown and answered with 500.
DetailsParsed(h, data) ==
    /\ h.pc = "awaitJson"
    /\ h.route = DetailsRoute
    /\ IF data = Rejected \/ DetailsStatusFails(data.status)
       THEN resp' = DetailsError(h.req, h.fetches, Upstream("ok", data.status))
       ELSE resp' = [route |-> DetailsRoute, req |-> h.req, status |-> 200,
                     json |-> ForEachComponent(NoDetails, AddressComponents(data)),
                     components |-> AddressComponents(data),
                     fetches |-> h.fetches, upstream |-> Upstream("ok", data.status)]
    /\ inflight' = Resume(h)
    /\ UNCHANGED <<users, addresses, currentUserId, currentAddressId,
                   GOOGLE_API_KEY, client, createLog>>

\* req.params.placeId
PlaceIds == { Str(<<"p", "1">>), Str(<<"p", "2">>) }

\* Provider payloads of the details service.
Component(types, long, short) ==
    [types |-> types, long_name |-> Str(long), short_name |-> Str(short)]

K_number == Component(<<"street_number">>, <<"1">>, <<"1">>)
K_route == Component(<<"route">>, <<"M", "a", "i", "n">>, <<"M">>)
K_city == Component(<<"locality", "political">>, <<"X">>, <<"X">>)
K_city2 == Component(<<"locality", "political">>, <<"Z">>, <<"Z">>)
K_state == Component(<<"administrative_area_level_1", "political">>,
                     <<"I", "l", "l">>, <<"I", "L">>)
K_zip == Component(<<"postal_code">>, <<"6", "2", "7", "0", "4">>, <<"6", "2", "7", "0", "4">>)
K_country == Component(<<"country", "political">>, <<"U", "S", "A">>, <<"U", "S">>)
K_other == Component(<<"neighborhood", "political">>, <<"N">>, <<"N">>)
K_premise == Component(<<"street_number", "route">>, <<"9">>, <<"9">>)

Result(components) == Obj([address_components |-> List(components)])

DetailsData ==
    { [status |-> "OK", result |-> Result(<<K_number, K_route, K_city, K_state, K_zip, K_country>>)],
      [status |-> "OK", result |-> Result(<<K_city, K_other, K_city2>>)],
      [status |-> "OK", result |-> Result(<<K_other>>)],
      [status |-> "OK", result |-> Result(<<K_premise, K_zip>>)],
      [status |-> "OK", result |-> Undefined],
      [status |-> "ZERO_RESULTS", result |-> Undefined],
      [status |-> "REQUEST_DENIED", result |-> Undefined] }

\* ------------------------------------------------------------------ system
\* The inputs of the system specification: one of each kind. The
\* specifications below widen one family of inputs each.
CoreBodies ==
    { b \in Bodies :
        \/ b = JsArray
        \/ /\ b # JsArray
           /\ b.f.city = Str(S_city)
           /\ b.f.streetAddress \in {Str(S_street), Str(S_empty)}
           /\ b.f.country = Str(S_US)
           /\ b.f.addressType \in {Undefined, Str(S_work)} }

CoreUsers == { u \in InsertUsers : u.username = Str(<<"a">>) }

CoreInputs == { Str(<<"1", " ">>), Str(<<"1", " ", "M">>) }

CoreData == { d \in AutocompleteData : d.status # "ZERO_RESULTS" /\ d.predictions.items # <<P_blank, P_emptyMain>> }

CoreOutcomes == { "ok", "not ok" }

Next ==
    \/ \E u \in CoreUsers : CreateUser(u)
    \/ \E x \in InsertAddresses : CreateAddress(x)
    \/ \E body \in CoreBodies : PostAddress(body)
    \/ \E h \in Suspended : PostAddressRespond(h)
    \/ GetAddresses
    \/ \E h \in Suspended : GetAddressesRespond(h)
    \/ \E input \in CoreInputs : Suggestions(input)
    \/ \E h \in Suspended, outcome \in CoreOutcomes : SuggestionsFetched(h, outcome)
    \/ \E h \in Suspended, data \in CoreData : SuggestionsParsed(h, data)

Spec == Init /\ [][Next]_vars

\* ------------------------------------------------------- record store claims
Created == [i \in 1..Len(createLog) |-> createLog[i].ret]

\* C1: after createAddress(x) has returned r, getAddressById(r.id) is a record
\* that equals x on every field of x, whose id is the assigned id and whose
\* userId is null, and that has no other field.
C1_CreateThenGetById ==
    createLog # << >> =>
        LET x == createLog[Len(createLog)].arg
            r == createLog[Len(createLog)].ret
            got == getAddressById(r.id.n)
        IN /\ got # Undefined
           /\ DOMAIN got = (DOMAIN x) \cup {"id", "userId"}
           /\ \A k \in DOMAIN x : got[k] = x[k]
           /\ got.id = r.id
           /\ got.id = Num(currentAddressId - 1)
           /\ got.userId = Null

\* Two records are stored, the last one created through the route from a body
\* that carries an apartment and its own id and userId.
C1_Witness ==
    /\ Len(createLog) = 2
    /\ createLog[2].arg.apartment = Str(S_apt)
    /\ createLog[2].arg.zipCode = Str(S_zip9)
    /\ getAddressById(2) = createLog[2].ret
    /\ users # << >>

\* C2: getAddresses() returns exactly the records created so far, one per
\* createAddress call, in the order of the calls.
C2_GetAddressesInCreationOrder ==
    /\ Len(getAddresses) = Len(createLog)
    /\ getAddresses = Created

\* Two creations of different records, with a createUser call, a rejected
\* submission and a read in between.
C2_Witness ==
    /\ Len(createLog) = 2
    /\ createLog[1].ret.zipCode # createLog[2].ret.zipCode
    /\ users # << >>
    /\ resp # NoResponse /\ resp.route = PostRoute /\ resp.status = 400
    /\ \E h \in Suspended : h.pc = "awaitGetAddresses" /\ Len(h.list) = 1

\* C3: stored address records have pairwise different ids, and every
\* createAddress call assigns an id greater than all ids assigned before.
C3_UniqueIncreasingIds ==
    /\ \A i, j \in 1..Len(addresses) :
          addresses[i].value.id = addresses[j].value.id => i = j
    /\ \A i \in 1..Len(addresses) : addresses[i].value.id = Num(addresses[i].key)
    /\ \A i, j \in 1..Len(createLog) :
          i < j => createLog[i].ret.id.n < createLog[j].ret.id.n

\* Two stored records created from equal arguments: they differ in id only.
C3_Witness ==
    /\ Len(addresses) = 2
    /\ Len(createLog) = 2
    /\ createLog[1].arg = createLog[2].arg

\* C4: a step that answers POST /api/addresses for a body that fails
\* validation answers 400 with the non-empty list of violations, and leaves
\* the address map, the user map, both id counters and the log of
\* createAddress calls as they were; no such body is ever answered otherwise.
C4_RejectedLeavesStore ==
    [][ \A body \in CoreBodies :
          (~insertAddressSchema_parse(body).success /\ PostAddress(body)) =>
              /\ resp'.route = PostRoute
              /\ resp'.req = body
              /\ resp'.status = 400
              /\ resp'.json.details = insertAddressSchema_parse(body).issues
              /\ resp'.json.details # << >>
              /\ users' = users
              /\ addresses' = addresses
              /\ currentUserId' = currentUserId
              /\ currentAddressId' = currentAddressId
              /\ createLog' = createLog
              /\ inflight' = inflight ]_vars

\* A rejected submission answered while the store already holds a record and
\* another submission may still follow.
C4_Witness ==
    /\ resp # NoResponse /\ resp.route = PostRoute /\ resp.status = 400
    /\ Len(resp.json.details) >= 2
    /\ Len(addresses) = 1
    /\ currentAddressId = 2

\* ------------------------------------------------ validation specification
\* Every combination of these values of the seven fields is submitted, as
\* the first request of the process.
S_other == <<"o", "t", "h", "e", "r">>

ZipValues ==
    { Undefined, Num(62704), Str(S_zip), Str(S_zip9), Str(S_empty), Str(S_bad),
      Str(<<"6", "2", "7", "0">>),
      Str(<<"6", "2", "7", "0", "4", "5">>),
      Str(<<"6", "2", "7", "0", "4", "-", "1", "2", "3">>),
      Str(<<"6", "2", "7", "0", "4", "-", "1", "2", "3", "4", "5">>),
      Str(<<"6", "2", "7", "0", "4", " ", "1", "2", "3", "4">>),
      Str(<<"6", "2", "7", "0", "4", "1", "2", "3", "4", "5">>),
      Str(<<" ", "6", "2", "7", "0", "4">>),
      Str(<<"6", "2", "7", "0", "a">>),
      Str(<<"6", "2", "7", "0", "4", "\n">>) }

AllBodies ==
    { Obj(Fields(street, city, state, zip, country, apartment, addressType,
                 Undefined, Undefined)) :
        street \in {Str(S_street), Str(S_empty), Str(S_space), Undefined},
        city \in {Str(S_city), Str(S_empty), Str(S_space)},
        state \in {Str(S_state), Str(S_empty), Str(S_space)},
        zip \in ZipValues,
        country \in {Str(S_US), Str(S_empty), Str(S_space), Undefined},
        apartment \in {Undefined, Str(S_apt), Null},
        addressType \in {Undefined, Str(S_home), Str(S_other), Str(S_office), Null} }

FirstSubmission ==
    /\ createLog = << >>
    /\ resp = NoResponse
    /\ \E body \in AllBodies : PostAddress(body)

ValidationNext ==
    \/ FirstSubmission
    \/ \E h \in Suspended : PostAddressRespond(h)

SpecValidation == Init /\ [][ValidationNext]_vars

\* The rules of the submission shape, field by field, stated on the
\* characters of the submitted value.
RequiredFields == {"streetAddress", "city", "state", "country"}

IsString(v) == v.t = "string"

MatchesZipPattern(s) ==
    /\ Len(s) \in {5, 10}
    /\ \A i \in 1..Len(s) : IF i = 6 THEN s[i] = "-" ELSE s[i] \in Digits

Violates(field, v) ==
    CASE field \in RequiredFields -> ~IsString(v) \/ v.s = << >>
      [] field = "zipCode" -> ~IsString(v) \/ ~MatchesZipPattern(v.s)
      [] field = "apartment" -> v # Undefined /\ ~IsString(v)
      [] field = "addressType" ->
            v # Undefined /\ (~IsString(v) \/ v.s \notin {S_home, S_work, S_other})

SchemaFields == RequiredFields \cup {"zipCode", "apartment", "addressType"}

\* The last response answers a POST of a submission object.
Answered == resp # NoResponse /\ resp.route = PostRoute /\ resp.req.t = "object"

Mentions(field) ==
    /\ resp.status = 400
    /\ \E i \in 1..Len(resp.json.details) : resp.json.details[i].path = <<field>>

\* C5: a submission whose zipCode does not match ^\d{5}(-\d{4})?$ is answered
\* 400 with a violation whose path is zipCode, whatever the other fields are.
C5_BadZipRejected ==
    (Answered /\ Violates("zipCode", resp.req.f.zipCode)) =>
        /\ resp.status = 400
        /\ Mentions("zipCode")
        /\ createLog = << >>

\* A ZIP code with a five-digit extension, every other field failing too.
C5_Witness ==
    /\ Answered
    /\ resp.req.f.zipCode = Str(<<"6", "2", "7", "0", "4", "-", "1", "2", "3", "4", "5">>)
    /\ \A k \in RequiredFields : resp.req.f[k] = Str(S_empty)
    /\ resp.status = 400

\* C6: the 400 response names every field that violates its rule, not only
\* the first one.
C6_AllViolationsReported ==
    Answered =>
        \A field \in SchemaFields :
            Violates(field, resp.req.f[field]) => Mentions(field)

\* The example: empty streetAddress and zipCode "bad", the rest valid.
C6_Witness ==
    /\ Answered
    /\ resp.req.f.streetAddress = Str(S_empty)
    /\ resp.req.f.zipCode = Str(S_bad)
    /\ \A k \in SchemaFields \ {"streetAddress", "zipCode"} :
          ~Violates(k, resp.req.f[k])
    /\ Mentions("streetAddress") /\ Mentions("zipCode")
    /\ Len(resp.json.details) = 2

\* String.prototype.trim on the characters used here.
IsWhitespace(c) == c \in {" ", "\t", "\n"}

RECURSIVE TrimStart(_)
TrimStart(s) ==
    IF s # << >> /\ IsWhitespace(Head(s)) THEN TrimStart(Tail(s)) ELSE s

RECURSIVE TrimEnd(_)
TrimEnd(s) ==
    IF s # << >> /\ IsWhitespace(s[Len(s)]) THEN TrimEnd(SubSeq(s, 1, Len(s) - 1)) ELSE s

Trim(s) == TrimEnd(TrimStart(s))

\* C7 as stated: a required field that is empty after trimming is answered
\* 400 with a violation for that field, and nothing is stored.
C7_BlankAfterTrimRejected ==
    Answered =>
        \A field \in RequiredFields :
            (IsString(resp.req.f[field]) /\ Trim(resp.req.f[field].s) = << >>) =>
                /\ Mentions(field)
                /\ addresses = << >>

\* C7 as the code has it: a required field that is the empty string is
\* answered 400 with a violation for that field, and nothing is stored; the
\* value is not trimmed.
C7_EmptyRejected ==
    Answered =>
        \A field \in RequiredFields :
            (IsString(resp.req.f[field]) /\ resp.req.f[field].s = << >>) =>
                /\ Mentions(field)
                /\ addresses = << >>
                /\ createLog = << >>

\* All four required fields are empty strings in an otherwise valid body.
C7_Witness ==
    /\ Answered
    /\ \A field \in RequiredFields : resp.req.f[field] = Str(S_empty)
    /\ ~Violates("zipCode", resp.req.f.zipCode)
    /\ resp.status = 400
    /\ addresses = << >>

OtherwiseValid(body, field) ==
    \A k \in SchemaFields \ {field} : ~Violates(k, body.f[k])

\* C8 as stated: a submission without country that is otherwise valid is
\* answered 201 and the stored record has country "US".
C8_CountryDefaultsToUS ==
    (Answered /\ resp.req.f.country = Undefined /\ OtherwiseValid(resp.req, "country")) =>
        /\ resp.status = 201
        /\ resp.json.country = Str(S_US)
        /\ getAddressById(resp.json.id.n).country = Str(S_US)

\* C9: a submission without addressType that is otherwise valid is answered
\* 201 and the stored record has addressType "home"; an addressType that is
\* present and not one of home, work, other is answered 400 with a violation
\* for addressType.
C9_AddressTypeDefaultAndEnum ==
    Answered =>
        /\ (resp.req.f.addressType = Undefined /\ OtherwiseValid(resp.req, "addressType")) =>
              /\ resp.status = 201
              /\ resp.json.addressType = Str(S_home)
              /\ getAddressById(resp.json.id.n) = resp.json
        /\ Violates("addressType", resp.req.f.addressType) => Mentions("addressType")

\* A stored record whose addressType was omitted in the submission.
C9_Witness ==
    /\ Answered
    /\ resp.req.f.addressType = Undefined
    /\ resp.status = 201
    /\ Len(addresses) = 1
    /\ addresses[1].value.addressType = Str(S_home)

\* ---------------------------------------------------- places specification
\* The two places proxies alone, with every query input, place id and
\* provider payload.
PlacesNext ==
    \/ \E input \in QueryInputs : Suggestions(input)
    \/ \E h \in Suspended, outcome \in FetchOutcomes : SuggestionsFetched(h, outcome)
    \/ \E h \in Suspended, data \in AutocompleteData \cup {Rejected} : SuggestionsParsed(h, data)
    \/ \E placeId \in PlaceIds : Details(placeId)
    \/ \E h \in Suspended, outcome \in FetchOutcomes : DetailsFetched(h, outcome)
    \/ \E h \in Suspended, data \in DetailsData \cup {Rejected} : DetailsParsed(h, data)

SpecPlaces == Init /\ [][PlacesNext]_vars

SuggestionsAnswered == resp # NoResponse /\ resp.route = SuggestionsRoute

\* The input is missing or is a string of fewer than 3 characters.
MissingOrShort(input) ==
    \/ input = Undefined
    \/ IsString(input) /\ Len(input.s) \in {0, 1, 2}

\* C10: a suggestion lookup whose input is missing or shorter than 3
\* characters is answered 200 with an empty prediction list, and its handler
\* has made no call to the external service and suspends on none, with or
\* without an API key.
C10_ShortInputNoCall ==
    /\ SuggestionsAnswered /\ MissingOrShort(resp.req) =>
          /\ resp.status = 200
          /\ resp.json.predictions = << >>
          /\ resp.fetches = 0
    /\ \A h \in Suspended : h.route = SuggestionsRoute => ~MissingOrShort(h.req)

\* A two-character input answered while no key is configured.
C10_Witness ==
    /\ SuggestionsAnswered
    /\ resp.req = Str(<<"1", " ">>)
    /\ GOOGLE_API_KEY = << >>
    /\ resp.status = 200

\* ---------------------------------------------------------------- C11
PlacesAnswered ==
    resp # NoResponse /\ resp.route \in {SuggestionsRoute, DetailsRoute}

NoKey == GOOGLE_API_KEY = << >>

PlacesInFlight ==
    { h \in Suspended : h.route \in {SuggestionsRoute, DetailsRoute} }

\* C11 as stated: with no API key configured, every suggestion lookup and
\* every detail lookup, whatever its input or place id, is answered 503 and
\* makes no call to the external service.
C11_NoKeyEveryLookup503 ==
    NoKey =>
        /\ PlacesAnswered => resp.status = 503 /\ resp.fetches = 0
        /\ PlacesInFlight = {}

\* C11: with no API key configured, every detail lookup, and every suggestion
\* lookup whose input is a string of at least 3 characters, is answered 503
\* and makes no call to the external service; no places handler is ever
\* suspended on a call.
C11_NoKey503 ==
    NoKey =>
        /\ PlacesAnswered /\ resp.route = DetailsRoute =>
              resp.status = 503 /\ resp.fetches = 0
        /\ PlacesAnswered /\ resp.route = SuggestionsRoute
              /\ ~MissingOrShort(resp.req) /\ IsString(resp.req) =>
              resp.status = 503 /\ resp.fetches = 0
        /\ PlacesInFlight = {}

\* A detail lookup answered while no key is configured.
C11_Witness ==
    /\ NoKey
    /\ PlacesAnswered
    /\ resp.route = DetailsRoute
    /\ resp.req = Str(<<"p", "1">>)
    /\ resp.status = 503

\* ---------------------------------------------------------------- C15
\* A lookup that gets past its input check: every detail lookup, and a
\* suggestion lookup whose input is a string of at least 3 characters.
FullLookupAnswered ==
    /\ PlacesAnswered
    /\ resp.route = SuggestionsRoute => IsString(resp.req) /\ ~MissingOrShort(resp.req)

\* The outcome class of the combination (key configured, how the fetch
\* settled, provider status) where the empty-result status counts as success.
OutcomeClass(upstream) ==
    IF NoKey THEN 503
    ELSE IF upstream.fetch # "ok" THEN 500
    ELSE IF upstream.status \in {"OK", "ZERO_RESULTS"} THEN 200
    ELSE 500

\* C15 as stated: for every combination of key, transport outcome and
\* provider status, the detail lookup and the suggestion lookup answer with
\* the same outcome class, the provider's empty-result status included.
C15_DetailsMirrorSuggestions ==
    FullLookupAnswered => resp.status = OutcomeClass(resp.upstream)

\* C15: the detail lookup and the suggestion lookup answer with the same
\* outcome class (200, 503 or 500) for every combination of key, transport
\* outcome and provider status except the provider's empty-result status,
\* which the suggestion lookup answers 200 and the detail lookup answers 500.
C15_MirrorExceptEmptyResult ==
    FullLookupAnswered =>
        IF resp.route = DetailsRoute /\ resp.upstream.status = "ZERO_RESULTS"
        THEN resp.status = 500
        ELSE resp.status = OutcomeClass(resp.upstream)

\* A detail lookup whose provider answered with the empty-result status.
C15_Witness ==
    /\ PlacesAnswered
    /\ resp.route = DetailsRoute
    /\ resp.upstream = Upstream("ok", "ZERO_RESULTS")
    /\ resp.status = 500

\* ---------------------------------------------------------------- C16
SuggestionsSucceeded ==
    SuggestionsAnswered /\ resp.status = 200 /\ resp.upstream.fetch = "ok"

\* The provider's predictions of the answered lookup (none when the payload
\* has no prediction list).
ProviderPredictions ==
    IF resp.provider = Undefined THEN << >> ELSE resp.provider.items

Present(v) == v # Undefined /\ v # Null

StructuredField(prediction, key) ==
    OptChain(prediction.structured_formatting, key)

\* C16 as stated: a successful suggestion lookup answers one Suggestion per
\* provider prediction, in provider order, whose mainText and secondaryText
\* are the provider's structured fields when those are present and otherwise
\* the description and the empty string.
C16_StructuredWhenPresent ==
    SuggestionsSucceeded =>
        LET ps == ProviderPredictions
            out == resp.json.predictions
        IN  /\ Len(out) = Len(ps)
            /\ \A i \in 1..Len(ps) :
                  /\ out[i].placeId = ps[i].place_id
                  /\ out[i].description = ps[i].description
                  /\ out[i].mainText =
                        IF Present(StructuredField(ps[i], "main_text"))
                        THEN StructuredField(ps[i], "main_text")
                        ELSE ps[i].description
                  /\ out[i].secondaryText =
                        IF Present(StructuredField(ps[i], "secondary_text"))
                        THEN StructuredField(ps[i], "secondary_text")
                        ELSE Str(<< >>)

NonEmptyText(v) == Present(v) /\ IsString(v) /\ v.s # << >>

\* C16: a successful suggestion lookup answers one Suggestion per provider
\* prediction, in provider order; mainText is the structured main text when
\* that is present and not empty and the description otherwise, secondaryText
\* is the structured secondary text when that is present and not empty and
\* the empty string otherwise.
C16_StructuredWhenNonEmpty ==
    SuggestionsSucceeded =>
        LET ps == ProviderPredictions
            out == resp.json.predictions
        IN  /\ Len(out) = Len(ps)
            /\ \A i \in 1..Len(ps) :
                  /\ out[i].placeId = ps[i].place_id
                  /\ out[i].description = ps[i].description
                  /\ out[i].mainText =
                        IF NonEmptyText(StructuredField(ps[i], "main_text"))
                        THEN StructuredField(ps[i], "main_text")
                        ELSE ps[i].description
                  /\ out[i].secondaryText =
                        IF NonEmptyText(StructuredField(ps[i], "secondary_text"))
                        THEN StructuredField(ps[i], "secondary_text")
                        ELSE Str(<< >>)

\* A lookup answered from a prediction with structured fields followed by
\* one without.
C16_Witness ==
    /\ SuggestionsSucceeded
    /\ ProviderPredictions = <<P_structured, P_plain>>
    /\ resp.json.predictions[1].mainText = Str(<<"1", " ", "M">>)
    /\ resp.json.predictions[2].mainText = Str(<<"2", " ", "M">>)
    /\ resp.json.predictions[2].secondaryText = Str(<< >>)

\* ---------------------------------------------------------------- C17
DetailsSucceeded ==
    PlacesAnswered /\ resp.route = DetailsRoute /\ resp.status = 200

\* The six tags in the order the handler tests them, each with its field of
\* the detail and the component name it copies.
TagOrder ==
    << [tag |-> "street_number", field |-> "streetNumber", name |-> "long_name"],
       [tag |-> "route", field |-> "route", name |-> "long_name"],
       [tag |-> "locality", field |-> "locality", name |-> "long_name"],
       [tag |-> "administrative_area_level_1", field |-> "administrativeAreaLevel1",
        name |-> "short_name"],
       [tag |-> "postal_code", field |-> "postalCode", name |-> "long_name"],
       [tag |-> "country", field |-> "country", name |-> "short_name"] >>

Last(S) == CHOOSE i \in S : \A j \in S : j <= i

\* The field of the detail is absent when idx is empty and otherwise holds
\* the name of the last component of idx.
FieldIsLastOf(k, idx) ==
    IF idx = {} THEN resp.json[TagOrder[k].field] = Undefined
    ELSE resp.json[TagOrder[k].field] = resp.components[Last(idx)][TagOrder[k].name]

\* C17 as stated: on a successful detail lookup each of the six fields is
\* present exactly when some returned component carries its tag, and then
\* holds the value of the last such component.
C17_FieldIffTagCarried ==
    DetailsSucceeded =>
        \A k \in 1..Len(TagOrder) :
            FieldIsLastOf(k, { i \in 1..Len(resp.components) :
                                 Includes(resp.components[i].types, TagOrder[k].tag) })

\* The component counts for tag k: it carries tag k and none of the tags
\* tested before it.
CountsFor(component, k) ==
    /\ Includes(component.types, TagOrder[k].tag)
    /\ \A j \in 1..(k - 1) : ~Includes(component.types, TagOrder[j].tag)

\* C17: on a successful detail lookup a component counts only for the first
\* of the six tags (street number, route, locality, administrative area,
\* postal code, country) that it carries; each field is present exactly when
\* some returned component counts for its tag, and then holds the name of
\* the last such component (the short name for administrative area and
\* country, the long name otherwise). Components carrying none of the six
\* tags change nothing.
C17_FieldIffFirstTag ==
    DetailsSucceeded =>
        \A k \in 1..Len(TagOrder) :
            FieldIsLastOf(k, { i \in 1..Len(resp.components) :
                                 CountsFor(resp.components[i], k) })

\* Two components tagged locality around an untagged one: the last wins and
\* the other five fields stay absent.
C17_Witness ==
    /\ DetailsSucceeded
    /\ resp.components = <<K_city, K_other, K_city2>>
    /\ resp.json.locality = Str(<<"Z">>)
    /\ resp.json.route = Undefined

\* ---------------------------------------------------------------- C12
StoredIds == { addresses[i].key : i \in 1..Len(addresses) }

\* C12: no step of the system (store operation or HTTP request) changes or
\* removes a stored address record: getAddressById(i) of every stored id i
\* returns after the step what it returned before, and the number of stored
\* addresses does not decrease.
C12_StoredRecordsKept ==
    [][ /\ \A id \in StoredIds : getAddressById(id)' = getAddressById(id)
        /\ Len(getAddresses)' >= Len(getAddresses) ]_vars

\* The first record is still as it was created after a second creation, a
\* createUser call and an answered submission.
C12_Witness ==
    /\ Len(createLog) = 2
    /\ users # << >>
    /\ resp # NoResponse /\ resp.route = PostRoute /\ resp.status = 201
    /\ getAddressById(1) = createLog[1].ret
    /\ getAddressById(2) # createLog[1].ret

\* ---------------------------------------------------------------- C13
\* C13: no two stored user records have the same username, so
\* getUserByUsername identifies at most one record.
C13_UsernamesUnique ==
    \A i, j \in 1..Len(users) :
        users[i].value.username = users[j].value.username => i = j

\* ---------------------------------------------------------------- C18
AcceptedInFlight == { h \in Suspended : h.pc = "awaitCreateAddress" }

\* C18: however the handlers of the requests in flight interleave at their
\* awaits, every accepted submission has an id of its own, every record
\* created is still stored as it was created, the store holds exactly one
\* record per accepted submission, and a submission that is answered or
\* still waiting to be answered has its record in the store.
C18_OneRecordPerAccepted ==
    /\ \A i, j \in 1..Len(createLog) :
          createLog[i].ret.id = createLog[j].ret.id => i = j
    /\ \A i \in 1..Len(createLog) :
          getAddressById(createLog[i].ret.id.n) = createLog[i].ret
    /\ Len(getAddresses) = Len(createLog)
    /\ \A h \in AcceptedInFlight :
          /\ CopiesIn(h, inflight) = 1
          /\ getAddressById(h.address.id.n) = h.address
          /\ \A g \in AcceptedInFlight : g.address.id = h.address.id => g = h
    /\ resp # NoResponse /\ resp.route = PostRoute /\ resp.status = 201 =>
          getAddressById(resp.json.id.n) = resp.json

\* Two accepted submissions are both waiting at their await, each with its
\* own stored record.
C18_Witness ==
    /\ Cardinality(AcceptedInFlight) = 2
    /\ Len(addresses) = 2
    /\ \A h \in AcceptedInFlight : getAddressById(h.address.id.n) = h.address

\* ---------------------------------------------------------------- C14
\* The store as the HTTP endpoints alone can make it: submissions and reads
\* of the address routes and suggestion lookups, no direct storage call. The
\* bodies add to Bodies one that fails the ZIP rule only and one that fails
\* the street rule only.
HttpBodies ==
    Bodies \cup
    { Obj(Fields(Str(S_street), Str(S_city), Str(S_state),
                 Str(<<"6", "2", "7", "0", "4", "5">>), Str(S_US),
                 Undefined, Str(S_home), Undefined, Undefined)),
      Obj(Fields(Str(S_empty), Str(S_city), Str(S_state), Str(S_zip), Str(S_US),
                 Undefined, Str(S_other), Undefined, Undefined)) }

HttpNext ==
    \/ \E body \in HttpBodies : PostAddress(body)
    \/ \E h \in Suspended : PostAddressRespond(h)
    \/ GetAddresses
    \/ \E h \in Suspended : GetAddressesRespond(h)
    \/ \E input \in CoreInputs : Suggestions(input)
    \/ \E h \in Suspended, outcome \in CoreOutcomes : SuggestionsFetched(h, outcome)
    \/ \E h \in Suspended, data \in CoreData : SuggestionsParsed(h, data)

SpecHttp == Init /\ [][HttpNext]_vars

NonEmptyString(v) == IsString(v) /\ v.s # << >>

\* C14: in every state reached through the HTTP endpoints, every stored
\* address record has a zipCode of 5 digits or 5 digits, a hyphen and 4
\* digits, a non-empty streetAddress, city, state and country, and an
\* addressType among home, work and other.
C14_StoredRecordsValid ==
    \A i \in 1..Len(addresses) :
        LET r == addresses[i].value IN
        /\ IsString(r.zipCode) /\ MatchesZipPattern(r.zipCode.s)
        /\ \A f \in RequiredFields : NonEmptyString(r[f])
        /\ IsString(r.addressType)
        /\ r.addressType.s \in {S_home, S_work, S_other}

\* Two records stored through the route, one with a 5+4 ZIP code and a
\* defaulted address type, after a submission was rejected.
C14_Witness ==
    /\ Len(addresses) = 2
    /\ \E i \in 1..2 : addresses[i].value.zipCode = Str(S_zip9)
    /\ \E i \in 1..2 : addresses[i].value.streetAddress = Str(S_space)
    /\ resp # NoResponse /\ resp.route = PostRoute /\ resp.status = 400

\* ---------------------------------------------------------------- C19
\* The form alone: typing, the passing of the debounce interval, clearing.
ClientNext ==
    \/ \E value \in Typed : HandleStreetAddressChange(value)
    \/ DebounceElapsed
    \/ HandleClear

SpecClient == Init /\ [][ClientNext]_vars

\* C19: the form starts a suggestion query for a text only once the text has
\* 3 characters or more and has not changed for 300 ms, and a burst of
\* keystrokes (changes less than 300 ms apart) starts at most one query.
C19_QueriesDebounced ==
    /\ \A i \in 1..Len(client.queries) :
          /\ Len(client.queries[i].key) >= 3
          /\ client.queries[i].quiet
    /\ client.burst <= 1

====
